---- MODULE Spec2Model ----
(***************************************************************************)
(* The WebSocket signaling server of samples/CameraAccess/server/index.js: *)
(* the room registry, the per-connection closure state (currentRoom, role) *)
(* and the three event handlers (connection, message, close).              *)
(***************************************************************************)
EXTENDS Integers, Sequences, FiniteSets, TLC

(* ------------------------------ bounds -------------------------------- *)

\* Number of WebSocket connections that ever arrive.
NumConns == 3

\* Number of distinct outcomes of the six Math.random() draws of one create.
NumCodes == 2

(* --------------------------- JSON values ------------------------------ *)

\* A JSON / JavaScript value: a tagged token.
Str(s) == [t |-> "string", v |-> s]
Num(s) == [t |-> "number", v |-> s]
JNull == [t |-> "null", v |-> "null"]
Undefined == [t |-> "undefined", v |-> "undefined"]

\* Text of a frame on the wire.  kind "object" is a JSON object whose
\* members are listed in textual order; "invalid" is text JSON.parse
\* rejects; "null" is the JSON text null.
ObjText(ms) == [kind |-> "object", members |-> ms]
InvalidText == [kind |-> "invalid", members |-> <<>>]
NullText == [kind |-> "null", members |-> <<>>]

Member(k, val) == [k |-> k, v |-> val]

\* Number literals whose magnitude exceeds the largest double.
OverflowLiterals == {"1e999"}

\* JSON.parse of one member value: a number literal becomes a double, so a
\* literal beyond the double range becomes Infinity.
ParseValue(val) ==
  IF val.t = "number" /\ val.v \in OverflowLiterals THEN Num("Infinity") ELSE val

\* JSON.stringify of one property value: non-finite numbers are written null.
StringifyValue(val) ==
  IF val.t = "number" /\ val.v = "Infinity" THEN JNull ELSE val

\* obj[k] = val on a JavaScript object kept as its own properties in
\* insertion order: an existing key keeps its place and takes the new value.
PutProp(props, k, val) ==
  IF \E i \in 1..Len(props) : props[i].k = k
    THEN [i \in 1..Len(props) |-> IF props[i].k = k THEN Member(k, val) ELSE props[i]]
    ELSE Append(props, Member(k, val))

RECURSIVE ParseMembers(_, _)
ParseMembers(ms, props) ==
  IF ms = <<>> THEN props
  ELSE ParseMembers(Tail(ms), PutProp(props, Head(ms).k, ParseValue(Head(ms).v)))

\* JSON.parse(data): threw is TRUE when it throws a SyntaxError.
JSONparse(data) ==
  CASE data.kind = "invalid" -> [threw |-> TRUE, kind |-> "none", props |-> <<>>]
    [] data.kind = "null" -> [threw |-> FALSE, kind |-> "null", props |-> <<>>]
    [] OTHER -> [threw |-> FALSE, kind |-> "object",
                 props |-> ParseMembers(data.members, <<>>)]

\* JSON.stringify(msg) of an object.
JSONstringify(props) ==
  ObjText([i \in 1..Len(props) |-> Member(props[i].k, StringifyValue(props[i].v))])

\* msg[k]: the property's value, or undefined.
GetProp(props, k) ==
  IF \E i \in 1..Len(props) : props[i].k = k
    THEN (CHOOSE m \in {props[i] : i \in 1..Len(props)} : m.k = k).v
    ELSE Undefined

(* --------------------------- room codes ------------------------------- *)

\* chars with the ambiguous characters 0, O, 1, I and L left in.
chars_Ambiguous ==
  << "A", "B", "C", "D", "E", "F", "G", "H", "I", "J", "K", "L", "M", "N", "O",
     "P", "Q", "R", "S", "T", "U", "V", "W", "X", "Y", "Z", "0", "1", "2", "3",
     "4", "5", "6", "7", "8", "9" >>

\* chars with L left in: 32 symbols.
chars_WithL ==
  << "A", "B", "C", "D", "E", "F", "G", "H", "J", "K", "L", "M", "N", "P", "Q",
     "R", "S", "T", "U", "V", "W", "X", "Y", "Z", "2", "3", "4", "5", "6", "7",
     "8", "9" >>

\* const chars = "ABCDEFGHJKMNPQRSTUVWXYZ23456789"
chars ==
  << "A", "B", "C", "D", "E", "F", "G", "H", "J", "K", "M", "N", "P", "Q", "R",
     "S", "T", "U", "V", "W", "X", "Y", "Z", "2", "3", "4", "5", "6", "7", "8",
     "9" >>

\* The loop bound of generateRoomCode.
CodeLen == 6

\* Math.random() yields n / RandDenom for some n in 0..RandDenom-1.
RandDenom == 62

\* Math.floor(Math.random() * chars.length), for the draw n / RandDenom.
RandomIndex(n) == (n * Len(chars)) \div RandDenom

\* The characters the loop appends, one per draw (chars is indexed from 0).
RECURSIVE generateRoomCodeChars(_, _, _)
generateRoomCodeChars(rnd, i, acc) ==
  IF i < CodeLen
    THEN generateRoomCodeChars(rnd, i + 1, Append(acc, chars[RandomIndex(rnd[i + 1]) + 1]))
    ELSE acc

RECURSIVE Concat(_)
Concat(cs) == IF cs = <<>> THEN "" ELSE Head(cs) \o Concat(Tail(cs))

\* generateRoomCode(), given the six draws of Math.random() it makes.
generateRoomCode(rnd) == Concat(generateRoomCodeChars(rnd, 0, <<>>))

\* The sequences of draws considered.
RandomSeqs ==
  {[i \in 1..CodeLen |-> (k * 23 + i * 9) % RandDenom] : k \in 0..(NumCodes - 1)}

\* generateRoomCode() tabulated over those draws.
CodeOf == [rnd \in RandomSeqs |-> generateRoomCode(rnd)]

\* The codes create can register.
GenCodes == {CodeOf[rnd] : rnd \in RandomSeqs}

(* ------------------------------ frames -------------------------------- *)

\* Frames a client sends.
RelayTypes == {"offer", "answer", "candidate"}

JoinRooms == GenCodes \cup {"ZZZZZZ"}

\* {type: "create"}, {type: "join", room}, and a join without a room field.
ProtocolFrames ==
  {ObjText(<<Member("type", Str("create"))>>)}
  \cup {ObjText(<<Member("type", Str("join")), Member("room", Str(code))>>) :
          code \in JoinRooms}
  \cup {ObjText(<<Member("type", Str("join"))>>)}

\* Offers: one with a string payload, one with a number payload beyond the
\* double range.
OfferFrames ==
  {ObjText(<<Member("type", Str("offer")), Member("sdp", Str("v=0"))>>),
   ObjText(<<Member("type", Str("offer")), Member("sdp", Num("1e999"))>>)}

\* Every kind of frame: the above, the other relayed types, an unknown
\* type, an object without type, text that is not JSON, and JSON null.
ClientFrames ==
  ProtocolFrames
  \cup OfferFrames
  \cup {ObjText(<<Member("type", Str(ty)), Member("sdp", Str("v=0"))>>) :
          ty \in RelayTypes}
  \cup {ObjText(<<Member("type", Str("bye"))>>)}
  \cup {ObjText(<<Member("sdp", Str("v=0"))>>)}
  \cup {InvalidText, NullText}

\* JSON.parse(data) tabulated over the frames clients send.
Parsed == [data \in ClientFrames |-> JSONparse(data)]

\* Frames the server sends: JSON.stringify of an object literal.
RoomCreated(code) ==
  JSONstringify(<<Member("type", Str("room_created")), Member("room", Str(code))>>)
RoomJoined == JSONstringify(<<Member("type", Str("room_joined"))>>)
ErrorFrame(message) ==
  JSONstringify(<<Member("type", Str("error")), Member("message", Str(message))>>)
PeerJoined == JSONstringify(<<Member("type", Str("peer_joined"))>>)
PeerLeft == JSONstringify(<<Member("type", Str("peer_left"))>>)

(* ------------------------------ state --------------------------------- *)

Conns == 1..NumConns
NoConn == 0

\* ws.readyState
CONNECTING == 0
OPEN == 1
CLOSED == 3

\* null, as the value of currentRoom and role.
Null == "<null>"

VARIABLES
  rooms,        \* the Map rooms: code -> [creator, viewer]
  currentRoom,  \* per connection: let currentRoom
  role,         \* per connection: let role
  readyState,   \* per connection: ws.readyState
  alive,        \* the process runs (no uncaught exception yet)
  last,         \* the event handled last: [kind, conn, data]
  out,          \* the frames that handler sent, in order: [to, data]
  hist,         \* history: who was sent room_joined, and peer_joined for whom
  gen           \* a call of generateRoomCode(): its draws and what it returns

vars == <<rooms, currentRoom, role, readyState, alive, last, out, hist, gen>>

NoData == [kind |-> "none", members |-> <<>>]
Event(kind, c, data) == [kind |-> kind, conn |-> c, data |-> data]
Send(c, data) == [to |-> c, data |-> data]

\* rooms.has(key)
Has(key) == key \in DOMAIN rooms

\* rooms.set(key, room)
MapSet(key, room) ==
  [x \in (DOMAIN rooms) \cup {key} |-> IF x = key THEN room ELSE rooms[x]]

\* rooms.delete(key)
MapDelete(key) == [x \in (DOMAIN rooms) \ {key} |-> rooms[x]]

\* The history of one connection's channel, the connection watch: whether
\* room_joined was sent to it, and for which joiners peer_joined was sent
\* to it.  NoHist keeps no history.
NoHist == [on |-> FALSE, watch |-> NoConn, joined |-> FALSE, peers |-> {}]
Watching(t) == [on |-> TRUE, watch |-> t, joined |-> FALSE, peers |-> {}]

\* The history after the handler of the event from connection c sent the
\* frames o.
Logged(c, o) ==
  IF hist.on
    THEN [on |-> TRUE,
          watch |-> hist.watch,
          joined |-> hist.joined \/ \E i \in 1..Len(o) : o[i] = Send(hist.watch, RoomJoined),
          peers |-> hist.peers \cup
                      (IF \E i \in 1..Len(o) : o[i] = Send(hist.watch, PeerJoined)
                         THEN {c}
                         ELSE {})]
    ELSE hist

\* The history after connection c closed: c receives and sends no more
\* frames, so what was sent to it or for it is dropped.
Forgotten(c) ==
  IF hist.on
    THEN IF c = hist.watch
           THEN Watching(c)
           ELSE [hist EXCEPT !.peers = @ \ {c}]
    ELSE hist

\* generateRoomCode() was called with the draws rnd and has not returned.
Called(rnd) == [rnd |-> rnd, cs |-> <<>>, code |-> ""]

\* The server after start-up: no room, no connection.
Started ==
  /\ rooms = [x \in {} |-> [creator |-> NoConn, viewer |-> NoConn]]
  /\ currentRoom = [c \in Conns |-> Null]
  /\ role = [c \in Conns |-> Null]
  /\ readyState = [c \in Conns |-> CONNECTING]
  /\ alive = TRUE
  /\ last = Event("none", NoConn, NoData)
  /\ out = <<>>

Init ==
  /\ Started
  /\ hist = NoHist
  /\ gen = Called(<<>>)

(* ----------------------------- handlers ------------------------------- *)

\* wss.on("connection"): a new closure with currentRoom = null, role = null.
\* Connections are numbered in the order they arrive.
OnConnection(c) ==
  /\ alive
  /\ readyState[c] = CONNECTING
  /\ \A d \in Conns : d < c => readyState[d] # CONNECTING
  /\ readyState' = [readyState EXCEPT ![c] = OPEN]
  /\ currentRoom' = [currentRoom EXCEPT ![c] = Null]
  /\ role' = [role EXCEPT ![c] = Null]
  /\ last' = Event("connection", c, NoData)
  /\ out' = <<>>
  /\ UNCHANGED <<rooms, alive, hist, gen>>

\* case "create" registering the room with its viewer slot taken by the
\* creator (the shape the comment on rooms shows) instead of empty.
CreateCase_ViewerSelf(c) ==
  \E rnd \in RandomSeqs :
    LET code == CodeOf[rnd] IN
      /\ rooms' = MapSet(code, [creator |-> c, viewer |-> c])
      /\ currentRoom' = [currentRoom EXCEPT ![c] = code]
      /\ role' = [role EXCEPT ![c] = "creator"]
      /\ out' = <<Send(c, RoomCreated(code))>>

\* case "create"
CreateCase(c) ==
  \E rnd \in RandomSeqs :
    LET code == CodeOf[rnd] IN
      /\ rooms' = MapSet(code, [creator |-> c, viewer |-> NoConn])
      /\ currentRoom' = [currentRoom EXCEPT ![c] = code]
      /\ role' = [role EXCEPT ![c] = "creator"]
      /\ out' = <<Send(c, RoomCreated(code))>>

\* rooms.get(key) finds a room: Map keys are compared by value, so only a
\* string equal to a registered code does.
GetFinds(key) == key.t = "string" /\ Has(key.v)

\* The successful branch of case "join" sending peer_joined without the
\* test of room.creator.readyState.
JoinSucceeds_NoReadyCheck(c, code) ==
  LET room == rooms[code] IN
    /\ rooms' = [rooms EXCEPT ![code].viewer = c]
    /\ currentRoom' = [currentRoom EXCEPT ![c] = code]
    /\ role' = [role EXCEPT ![c] = "viewer"]
    /\ out' = <<Send(c, RoomJoined)>> \o
              (IF room.creator # NoConn
                 THEN <<Send(room.creator, PeerJoined)>>
                 ELSE <<>>)

\* The successful branch of case "join".
JoinSucceeds(c, code) ==
  LET room == rooms[code] IN
    /\ rooms' = [rooms EXCEPT ![code].viewer = c]
    /\ currentRoom' = [currentRoom EXCEPT ![c] = code]
    /\ role' = [role EXCEPT ![c] = "viewer"]
    /\ out' = <<Send(c, RoomJoined)>> \o
              (IF room.creator # NoConn /\ readyState[room.creator] = OPEN
                 THEN <<Send(room.creator, PeerJoined)>>
                 ELSE <<>>)

\* case "join" without the test of room.viewer: a join to an occupied room
\* replaces the viewer.
JoinCase_NoFullCheck(c, msg) ==
  LET key == GetProp(msg, "room") IN
    IF ~GetFinds(key)
      THEN /\ out' = <<Send(c, ErrorFrame("Room not found"))>>
           /\ UNCHANGED <<rooms, currentRoom, role>>
      ELSE JoinSucceeds(c, key.v)

\* case "join" with currentRoom = msg.room assigned before the lookup.
JoinCase_AssignsFirst(c, msg) ==
  LET key == GetProp(msg, "room") IN
    IF ~GetFinds(key)
      THEN /\ out' = <<Send(c, ErrorFrame("Room not found"))>>
           /\ currentRoom' = [currentRoom EXCEPT ![c] = key.v]
           /\ UNCHANGED <<rooms, role>>
    ELSE IF rooms[key.v].viewer # NoConn
      THEN /\ out' = <<Send(c, ErrorFrame("Room is full"))>>
           /\ currentRoom' = [currentRoom EXCEPT ![c] = key.v]
           /\ UNCHANGED <<rooms, role>>
    ELSE JoinSucceeds(c, key.v)

\* case "join" with role = "viewer" assigned before the lookup.
JoinCase_RoleFirst(c, msg) ==
  LET key == GetProp(msg, "room") IN
    IF ~GetFinds(key)
      THEN /\ out' = <<Send(c, ErrorFrame("Room not found"))>>
           /\ role' = [role EXCEPT ![c] = "viewer"]
           /\ UNCHANGED <<rooms, currentRoom>>
    ELSE IF rooms[key.v].viewer # NoConn
      THEN /\ out' = <<Send(c, ErrorFrame("Room is full"))>>
           /\ role' = [role EXCEPT ![c] = "viewer"]
           /\ UNCHANGED <<rooms, currentRoom>>
    ELSE JoinSucceeds(c, key.v)

\* case "join"
JoinCase(c, msg) ==
  LET key == GetProp(msg, "room") IN
    IF ~GetFinds(key)
      THEN /\ out' = <<Send(c, ErrorFrame("Room not found"))>>
           /\ UNCHANGED <<rooms, currentRoom, role>>
    ELSE IF rooms[key.v].viewer # NoConn
      THEN /\ out' = <<Send(c, ErrorFrame("Room is full"))>>
           /\ UNCHANGED <<rooms, currentRoom, role>>
    ELSE JoinSucceeds(c, key.v)

\* case "offer": case "answer": case "candidate" answering the sender with
\* an error when it is in no registered room, instead of returning.
RelayCase_RepliesError(c, msg) ==
  /\ UNCHANGED <<rooms, currentRoom, role>>
  /\ IF ~Has(currentRoom[c])
       THEN out' = <<Send(c, ErrorFrame("Room not found"))>>
       ELSE LET room == rooms[currentRoom[c]]
                target == IF role[c] = "creator" THEN room.viewer ELSE room.creator
            IN IF target # NoConn /\ readyState[target] = OPEN
                 THEN out' = <<Send(target, JSONstringify(msg))>>
                 ELSE out' = <<>>

\* case "offer": case "answer": case "candidate"
RelayCase(c, msg) ==
  /\ UNCHANGED <<rooms, currentRoom, role>>
  /\ IF ~Has(currentRoom[c])
       THEN out' = <<>>
       ELSE LET room == rooms[currentRoom[c]]
                target == IF role[c] = "creator" THEN room.viewer ELSE room.creator
            IN IF target # NoConn /\ readyState[target] = OPEN
                 THEN out' = <<Send(target, JSONstringify(msg))>>
                 ELSE out' = <<>>

\* ws.on("message").  JSON.parse("null") is null, and msg.type on null
\* throws a TypeError outside the try block: an uncaught exception, which
\* ends the process.
OnMessage(c, data) ==
  /\ alive
  /\ readyState[c] = OPEN
  /\ last' = Event("message", c, data)
  /\ UNCHANGED <<readyState, gen>>
  /\ LET p == Parsed[data]
         type == GetProp(p.props, "type")
     IN IF p.threw
          THEN /\ out' = <<>>
               /\ UNCHANGED <<rooms, currentRoom, role, alive>>
        ELSE IF p.kind = "null"
          THEN /\ alive' = FALSE
               /\ out' = <<>>
               /\ UNCHANGED <<rooms, currentRoom, role>>
        ELSE /\ UNCHANGED alive
             /\ CASE type = Str("create") -> CreateCase(c)
                  [] type = Str("join") -> JoinCase(c, p.props)
                  [] type \in {Str(ty) : ty \in RelayTypes} -> RelayCase(c, p.props)
                  [] OTHER -> /\ out' = <<>>
                              /\ UNCHANGED <<rooms, currentRoom, role>>
  /\ hist' = Logged(c, out')

\* ws.on("close"): emitted once per connection, with readyState already
\* CLOSED when the handler runs.
OnClose(c) ==
  /\ alive
  /\ readyState[c] = OPEN
  /\ readyState' = [readyState EXCEPT ![c] = CLOSED]
  /\ last' = Event("close", c, NoData)
  /\ hist' = Forgotten(c)
  /\ UNCHANGED <<currentRoom, role, alive, gen>>
  /\ IF currentRoom[c] # Null /\ Has(currentRoom[c])
       THEN LET room == rooms[currentRoom[c]]
                otherPeer == IF role[c] = "creator" THEN room.viewer ELSE room.creator
            IN /\ out' = IF otherPeer # NoConn /\ readyState'[otherPeer] = OPEN
                           THEN <<Send(otherPeer, PeerLeft)>>
                           ELSE <<>>
               /\ IF role[c] = "creator"
                    THEN rooms' = MapDelete(currentRoom[c])
                    ELSE rooms' = [rooms EXCEPT ![currentRoom[c]].viewer = NoConn]
       ELSE /\ out' = <<>>
            /\ UNCHANGED rooms

\* One event: a connection arrives, a connection sends one of frames, or a
\* connection closes.  Handlers run to completion, one at a time.
Step(frames) ==
  \/ \E c \in Conns : OnConnection(c)
  \/ \E c \in Conns : \E data \in frames : OnMessage(c, data)
  \/ \E c \in Conns : OnClose(c)

\* Clients send create and join frames.
Next == Step(ProtocolFrames)

Spec == Init /\ [][Next]_vars

\* Clients send create, join and offer frames.
NextRelay == Step(ProtocolFrames \cup OfferFrames)

SpecRelay == Init /\ [][NextRelay]_vars

\* Clients send every kind of frame.
NextAll == Step(ClientFrames)

SpecAll == Init /\ [][NextAll]_vars

\* The frames of a handshake: create, join of a code create can register,
\* and an offer.
HandshakeFrames ==
  {ObjText(<<Member("type", Str("create"))>>)}
  \cup {ObjText(<<Member("type", Str("join")), Member("room", Str(code))>>) :
          code \in GenCodes}
  \cup {ObjText(<<Member("type", Str("offer")), Member("sdp", Str("v=0"))>>)}

InitHist ==
  /\ Started
  /\ hist \in {Watching(t) : t \in Conns}
  /\ gen = Called(<<>>)

NextHist == Step(HandshakeFrames)

\* Clients send handshake frames, and the history of the room_joined and
\* peer_joined frames sent to one connection, any of them, is kept.
SpecHist == InitHist /\ [][NextHist]_vars

\* Draws for a call of generateRoomCode() on its own: six times the same
\* draw, for every draw; draws that move through the range; and the draws
\* create uses.
GenDraws ==
  {[i \in 1..CodeLen |-> n] : n \in 0..(RandDenom - 1)}
  \cup {[i \in 1..CodeLen |-> (n + i * 7) % RandDenom] : n \in 0..(RandDenom - 1)}
  \cup RandomSeqs

InitGen ==
  /\ Started
  /\ hist = NoHist
  /\ gen \in {Called(rnd) : rnd \in GenDraws}

\* generateRoomCode() runs its loop and returns code; cs lists the
\* characters of code, one per iteration.
GenerateRoomCodeReturns ==
  /\ gen.code = ""
  /\ gen' = [rnd |-> gen.rnd,
             cs |-> generateRoomCodeChars(gen.rnd, 0, <<>>),
             code |-> generateRoomCode(gen.rnd)]
  /\ UNCHANGED <<rooms, currentRoom, role, readyState, alive, last, out, hist>>

NextGen == GenerateRoomCodeReturns

\* One call of generateRoomCode(), for each of the draws considered.
SpecGen == InitGen /\ [][NextGen]_vars

TypeOK ==
  /\ DOMAIN rooms \subseteq GenCodes
  /\ \A x \in DOMAIN rooms : rooms[x].creator \in Conns /\ rooms[x].viewer \in Conns \cup {NoConn}
  /\ \A c \in Conns : currentRoom[c] \in GenCodes \cup {Null}
  /\ \A c \in Conns : role[c] \in {Null, "creator", "viewer"}

(* ------------------------ vocabulary of the claims -------------------- *)

CreateFrame == ObjText(<<Member("type", Str("create"))>>)
JoinFrame(code) == ObjText(<<Member("type", Str("join")), Member("room", Str(code))>>)
JoinNoRoomFrame == ObjText(<<Member("type", Str("join"))>>)

RoomCreatedText(code) ==
  ObjText(<<Member("type", Str("room_created")), Member("room", Str(code))>>)
RoomJoinedText == ObjText(<<Member("type", Str("room_joined"))>>)
RoomFullText ==
  ObjText(<<Member("type", Str("error")), Member("message", Str("Room is full"))>>)
RoomNotFoundText ==
  ObjText(<<Member("type", Str("error")), Member("message", Str("Room not found"))>>)
PeerJoinedText == ObjText(<<Member("type", Str("peer_joined"))>>)
PeerLeftText == ObjText(<<Member("type", Str("peer_left"))>>)

\* The handler that ran in this step handled frame data from connection c.
Handled(c, data) == last' = Event("message", c, data)

\* The handler that ran in this step was the close handler of connection c.
Closed(c) == last' = Event("close", c, NoData)

\* Some frame of the sequence o carries text to connection c.
Received(o, c, text) == \E i \in 1..Len(o) : o[i] = Send(c, text)

\* The field content of a frame: which value each field name carries.
FieldContent(text) == {<<text.members[i].k, text.members[i].v>> : i \in 1..Len(text.members)}

(* ------------------------------- C1 ----------------------------------- *)

\* C1: a join for a code whose room already has a viewer is answered with
\* exactly {type: error, message: "Room is full"} to the sender, and leaves
\* the registry (the room's viewer included) and every connection's role
\* and room as they were.
C1_RoomFull ==
  [][\A c \in Conns : \A code \in GenCodes :
       (Handled(c, JoinFrame(code)) /\ Has(code) /\ rooms[code].viewer # NoConn)
         => /\ out' = <<Send(c, RoomFullText)>>
            /\ rooms' = rooms
            /\ role' = role
            /\ currentRoom' = currentRoom]_vars

\* A third connection has just been refused a room that holds a creator and
\* a viewer, both other connections.
C1_Witness ==
  \E code \in GenCodes :
    /\ last.kind = "message" /\ last.data = JoinFrame(code)
    /\ out = <<Send(last.conn, RoomFullText)>>
    /\ Has(code)
    /\ rooms[code].viewer \notin {NoConn, last.conn}
    /\ rooms[code].creator \notin {last.conn, rooms[code].viewer}
    /\ role[last.conn] = Null

(* ------------------------------- C2 ----------------------------------- *)

\* C2: every room in the registry has a creator whose connection has not
\* closed, and a room leaves the registry only in the close handler of its
\* own creator.
C2_DestroyedPreciselyOnCreatorClose ==
  [][/\ \A x \in DOMAIN rooms' : readyState'[rooms'[x].creator] # CLOSED
     /\ \A x \in (DOMAIN rooms) \ (DOMAIN rooms') : Closed(rooms[x].creator)]_vars

(* ------------------------------- C3 ----------------------------------- *)

\* C3: once a connection's role is creator or viewer, no later frame from
\* it changes its role or its recorded room.
C3_RoleAssignedOnce ==
  [][\A c \in Conns :
       role[c] # Null => role'[c] = role[c] /\ currentRoom'[c] = currentRoom[c]]_vars

(* ------------------------------- C4 ----------------------------------- *)

\* The rooms of the registry in which connection c holds a slot.
RoomsOf(c) == {x \in DOMAIN rooms : rooms[x].creator = c \/ rooms[x].viewer = c}

\* C4: each connection appears in at most one room of the registry, and
\* never as both creator and viewer of one room.
C4_AtMostOneRoom ==
  /\ \A c \in Conns : Cardinality(RoomsOf(c)) <= 1
  /\ \A x \in DOMAIN rooms : rooms[x].creator # rooms[x].viewer

(* ------------------------------- C5 ----------------------------------- *)

\* C5: a create never replaces the registry entry of a room whose creator
\* is still connected, and two connected creators never hold the same code.
C5_OneLiveRoomPerCode ==
  [][/\ \A c \in Conns : \A x \in DOMAIN rooms :
          (Handled(c, CreateFrame) /\ readyState[rooms[x].creator] = OPEN)
            => (x \in DOMAIN rooms' /\ rooms'[x] = rooms[x])
     /\ \A a \in Conns : \A b \in Conns \ {a} :
          (/\ readyState'[a] = OPEN /\ readyState'[b] = OPEN
           /\ role'[a] = "creator" /\ role'[b] = "creator")
            => currentRoom'[a] # currentRoom'[b]]_vars

(* ------------------------------- C6 ----------------------------------- *)

\* C6: when the frame handled last was a create from connection a, answered
\* with room_created for code, and the next frame handled is a join for
\* that code from another connection b that has no role, then b is sent
\* room_joined, a (if open) is sent peer_joined after it, and b becomes the
\* room's viewer.
C6_CreateThenJoin ==
  [][\A a \in Conns : \A b \in Conns \ {a} : \A code \in GenCodes :
       (/\ last = Event("message", a, CreateFrame)
        /\ out = <<Send(a, RoomCreatedText(code))>>
        /\ role[b] = Null
        /\ Handled(b, JoinFrame(code)))
         => /\ out' = <<Send(b, RoomJoinedText)>> \o
                      (IF readyState[a] = OPEN THEN <<Send(a, PeerJoinedText)>> ELSE <<>>)
            /\ Has(code)
            /\ rooms' = [rooms EXCEPT ![code] = [creator |-> a, viewer |-> b]]
            /\ role'[b] = "viewer"
            /\ currentRoom'[b] = code]_vars

\* A connection without a role has just joined the room of another, open
\* creator: it was sent room_joined and the creator peer_joined.
C6_Witness ==
  \E code \in GenCodes : \E a \in Conns :
    /\ last.kind = "message" /\ last.data = JoinFrame(code) /\ last.conn # a
    /\ out = <<Send(last.conn, RoomJoinedText), Send(a, PeerJoinedText)>>
    /\ Has(code) /\ rooms[code] = [creator |-> a, viewer |-> last.conn]
    /\ role[a] = "creator" /\ currentRoom[a] = code
    /\ role[last.conn] = "viewer" /\ currentRoom[last.conn] = code
    /\ \A x \in DOMAIN rooms : x = code

(* ------------------------------- C7 ----------------------------------- *)

\* C7: when the creator of a room closes, the room leaves the registry (so
\* a later join for its code finds no room), and the room's viewer, if
\* present and open, is sent peer_left.
C7_CreatorCloseDestroysRoom ==
  [][\A x \in DOMAIN rooms :
       Closed(rooms[x].creator)
         => /\ x \notin DOMAIN rooms'
            /\ (rooms[x].viewer # NoConn /\ readyState'[rooms[x].viewer] = OPEN)
                 => Received(out', rooms[x].viewer, PeerLeftText)]_vars

(* ------------------------------- C8 ----------------------------------- *)

\* C8: when the viewer of a room closes while the room's creator is open,
\* the creator is sent peer_left and the room stays in the registry with
\* the same creator and an empty viewer slot (so a new join succeeds).
C8_ViewerCloseFreesSlot ==
  [][\A x \in DOMAIN rooms :
       (/\ rooms[x].viewer # NoConn
        /\ Closed(rooms[x].viewer)
        /\ readyState'[rooms[x].creator] = OPEN)
         => /\ Received(out', rooms[x].creator, PeerLeftText)
            /\ x \in DOMAIN rooms'
            /\ rooms'[x] = [creator |-> rooms[x].creator, viewer |-> NoConn]]_vars

(* ------------------------------- C9 ----------------------------------- *)

\* C9: an offer from a connection that is the creator of its room is
\* delivered to the room's viewer, when present and open, as one frame of
\* the same field content, and to nobody else; otherwise nothing is sent
\* at all; either way the registry and the connections' roles and rooms
\* stay as they were.
C9_OfferRelayedVerbatim ==
  [][\A c \in Conns : \A x \in DOMAIN rooms : \A data \in OfferFrames :
       (/\ Handled(c, data)
        /\ role[c] = "creator" /\ currentRoom[c] = x /\ rooms[x].creator = c)
         => /\ IF rooms[x].viewer # NoConn /\ readyState[rooms[x].viewer] = OPEN
                 THEN /\ Len(out') = 1
                      /\ out'[1].to = rooms[x].viewer
                      /\ FieldContent(out'[1].data) = FieldContent(data)
                 ELSE out' = <<>>
            /\ rooms' = rooms
            /\ role' = role
            /\ currentRoom' = currentRoom]_vars

(* ------------------------------- C10 ---------------------------------- *)

\* C10: a join for a code that names no room of the registry (or a join
\* that carries no room at all) is answered with exactly
\* {type: error, message: "Room not found"} to the sender and changes
\* neither the registry nor any connection's role and room.
C10_RoomNotFound ==
  [][\A c \in Conns :
       (\/ \E code \in JoinRooms : Handled(c, JoinFrame(code)) /\ ~Has(code)
        \/ Handled(c, JoinNoRoomFrame))
         => /\ out' = <<Send(c, RoomNotFoundText)>>
            /\ rooms' = rooms
            /\ role' = role
            /\ currentRoom' = currentRoom]_vars

\* A connection has just been refused the code ZZZZZZ, which no create
\* registered, while the registry holds a room.
C10_Witness ==
  /\ last.kind = "message" /\ last.data = JoinFrame("ZZZZZZ")
  /\ out = <<Send(last.conn, RoomNotFoundText)>>
  /\ DOMAIN rooms # {}
  /\ ~Has("ZZZZZZ")
  /\ role[last.conn] = Null /\ currentRoom[last.conn] = Null

(* ------------------------------- C11 ---------------------------------- *)

\* The frames a failed join is answered with.
JoinErrors(c) == {<<Send(c, RoomNotFoundText)>>, <<Send(c, RoomFullText)>>}

\* The join frames a client can send.
JoinFrames == {JoinFrame(code) : code \in JoinRooms} \cup {JoinNoRoomFrame}

\* C11: a join of an unassigned connection that fails with "Room not
\* found" or "Room is full" leaves the connection open and unassigned; and
\* the next frame from that connection is served as a fresh connection's
\* would be: a create registers a room and is answered room_created, a join
\* to an existing room with a free viewer slot makes it the viewer and is
\* answered room_joined (and the open creator peer_joined).
C11_UsableAfterFailedJoin ==
  [][\A c \in Conns :
       /\ (/\ role[c] = Null /\ currentRoom[c] = Null
           /\ \E data \in JoinFrames : Handled(c, data)
           /\ out' \in JoinErrors(c))
            => /\ role'[c] = Null /\ currentRoom'[c] = Null
               /\ readyState'[c] = OPEN /\ alive'
       /\ (/\ \E data \in JoinFrames : last = Event("message", c, data)
           /\ out \in JoinErrors(c)
           /\ role[c] = Null)
            => /\ Handled(c, CreateFrame)
                    => \E code \in GenCodes :
                         /\ out' = <<Send(c, RoomCreatedText(code))>>
                         /\ rooms' = MapSet(code, [creator |-> c, viewer |-> NoConn])
                         /\ role'[c] = "creator" /\ currentRoom'[c] = code
               /\ \A code \in GenCodes :
                    (Handled(c, JoinFrame(code)) /\ Has(code) /\ rooms[code].viewer = NoConn)
                      => /\ out' = <<Send(c, RoomJoinedText)>> \o
                                   (IF readyState[rooms[code].creator] = OPEN
                                      THEN <<Send(rooms[code].creator, PeerJoinedText)>>
                                      ELSE <<>>)
                         /\ rooms' = [rooms EXCEPT ![code].viewer = c]
                         /\ role'[c] = "viewer" /\ currentRoom'[c] = code]_vars

\* An unassigned connection has just been refused ("Room is full") while
\* the registry also holds a room with a free viewer slot it can join next.
C11_Witness ==
  \E code \in GenCodes : \E free \in DOMAIN rooms :
    /\ last = Event("message", last.conn, JoinFrame(code))
    /\ out = <<Send(last.conn, RoomFullText)>>
    /\ role[last.conn] = Null /\ currentRoom[last.conn] = Null
    /\ readyState[last.conn] = OPEN
    /\ rooms[free].viewer = NoConn
    /\ readyState[rooms[free].creator] = OPEN

(* ------------------------------- C12 ---------------------------------- *)

\* Frames without a usable type: text that is not JSON, JSON that has no
\* type field (an object without one, and null), and an unknown type.
UntypedFrames ==
  {InvalidText, NullText,
   ObjText(<<Member("sdp", Str("v=0"))>>),
   ObjText(<<Member("type", Str("bye"))>>)}

\* C12: a frame that is not valid JSON, has no type field or has an unknown
\* type is discarded: handling it sends nothing to anyone, leaves the
\* registry and every connection's role and room as they were, and the
\* server goes on.
C12_UntypedFramesDiscarded ==
  [][\A c \in Conns : \A data \in UntypedFrames :
       Handled(c, data)
         => /\ out' = <<>>
            /\ rooms' = rooms
            /\ role' = role
            /\ currentRoom' = currentRoom
            /\ alive']_vars

(* ------------------------------- C13 ---------------------------------- *)

\* C13: no frame a connection can send is fatal to the server: after every
\* frame handled, the process is still running.
C13_NoFrameFatal == alive

(* ------------------------------- C14 ---------------------------------- *)

\* The alphabet the contract of generate() names.
ContractAlphabet ==
  {"A", "B", "C", "D", "E", "F", "G", "H", "J", "K", "M", "N", "P", "Q", "R", "S",
   "T", "U", "V", "W", "X", "Y", "Z", "2", "3", "4", "5", "6", "7", "8", "9"}

\* C14: every code generateRoomCode returns has length exactly 6, and each
\* of its characters belongs to ABCDEFGHJKMNPQRSTUVWXYZ23456789, so none is
\* 0, O, 1, I or L.
C14_CodeShape ==
  gen.code # ""
    => /\ Len(gen.code) = 6
       /\ Len(gen.cs) = 6
       /\ gen.code = Concat(gen.cs)
       /\ \A i \in 1..Len(gen.cs) :
            gen.cs[i] \in ContractAlphabet \ {"0", "O", "1", "I", "L"}

\* A call returned a code whose characters are not all the same, drawn
\* from both ends of the range of Math.random().
C14_Witness ==
  /\ gen.code # ""
  /\ gen.rnd[1] = 0
  /\ gen.rnd[CodeLen] > RandDenom \div 2
  /\ gen.cs[1] = "A"
  /\ gen.cs[1] # gen.cs[CodeLen]

(* ------------------------------- C15 ---------------------------------- *)

\* The symbols a character of a code can be: chars at the index computed
\* from some draw.
Drawable == {chars[RandomIndex(n) + 1] : n \in 0..(RandDenom - 1)}

\* C15 as stated: the alphabet room-code characters are drawn from has
\* exactly 32 distinct symbols.
C15_Alphabet32 ==
  /\ Cardinality({chars[i] : i \in 1..Len(chars)}) = 32
  /\ gen.code # "" => \A i \in 1..Len(gen.cs) : gen.cs[i] \in Drawable

\* C15 amended: the alphabet room-code characters are drawn from has
\* exactly 31 distinct symbols (23 letters and 8 digits), each of which can
\* be drawn, and every character of a generated code is one of them.
C15_Alphabet31 ==
  /\ Len(chars) = 31
  /\ Cardinality({chars[i] : i \in 1..Len(chars)}) = 31
  /\ Cardinality(Drawable) = 31
  /\ gen.code # "" => \A i \in 1..Len(gen.cs) : gen.cs[i] \in Drawable

\* A call returned a code made of the last symbol of the alphabet.
C15_Witness ==
  /\ gen.code = "999999"
  /\ RandomIndex(gen.rnd[1]) + 1 = Len(chars)

(* ------------------------------- C16 ---------------------------------- *)

\* Connection t is the counterpart of connection c: c's recorded room is
\* registered, and c and t hold its two slots, one each.
Counterpart(c, t) ==
  /\ Has(currentRoom[c])
  /\ LET room == rooms[currentRoom[c]]
     IN \/ room.creator = c /\ room.viewer = t
        \/ room.viewer = c /\ room.creator = t

\* C16: a relayed frame reaches only the sender's counterpart in the
\* sender's own room: never the sender itself, and never a connection that
\* is not the other participant of the room the sender is a member of.
C16_RelayOnlyToCounterpart ==
  [][\A c \in Conns : \A data \in OfferFrames :
       Handled(c, data)
         => \A i \in 1..Len(out') :
              /\ out'[i].to # c
              /\ Counterpart(c, out'[i].to)]_vars

(* ------------------------------- C17 ---------------------------------- *)

\* The offer, answer and candidate frames clients send.
RelayFrames ==
  {data \in ClientFrames :
     /\ data.kind = "object"
     /\ \E i \in 1..Len(data.members) :
          /\ data.members[i].k = "type"
          /\ data.members[i].v \in {Str(ty) : ty \in RelayTypes}}

\* C17: an offer, answer or candidate frame from a connection that has no
\* role and no room is forwarded to no connection, gets no reply, and
\* changes no state.
C17_UnassignedRelayIgnored ==
  [][\A c \in Conns : \A data \in RelayFrames :
       (Handled(c, data) /\ role[c] = Null /\ currentRoom[c] = Null)
         => /\ out' = <<>>
            /\ rooms' = rooms
            /\ role' = role
            /\ currentRoom' = currentRoom
            /\ readyState' = readyState
            /\ alive' = alive]_vars

\* A connection with no role and no room sent a candidate frame while a
\* room with two open participants was registered, and nothing was sent.
C17_Witness ==
  /\ last.kind = "message"
  /\ last.data = ObjText(<<Member("type", Str("candidate")), Member("sdp", Str("v=0"))>>)
  /\ role[last.conn] = Null
  /\ currentRoom[last.conn] = Null
  /\ out = <<>>
  /\ \E code \in DOMAIN rooms :
       /\ rooms[code].viewer # NoConn
       /\ rooms[code].viewer # rooms[code].creator
       /\ readyState[rooms[code].creator] = OPEN
       /\ readyState[rooms[code].viewer] = OPEN

(* ------------------------------- C18 ---------------------------------- *)

\* C18: connection state and registry agree in every reachable state: a
\* creator whose recorded room is registered is that room's creator, a
\* viewer whose recorded room is registered is that room's viewer, and
\* every open connection in a slot of a room has that room's code as its
\* recorded room.
C18_StateAgreesWithRegistry ==
  /\ \A c \in Conns :
       Has(currentRoom[c])
         => /\ role[c] = "creator" => rooms[currentRoom[c]].creator = c
            /\ role[c] = "viewer" => rooms[currentRoom[c]].viewer = c
  /\ \A code \in DOMAIN rooms : \A c \in Conns :
       (readyState[c] = OPEN /\ c \in {rooms[code].creator, rooms[code].viewer})
         => currentRoom[c] = code

(* ------------------------------- C19 ---------------------------------- *)

\* C19: a relayed frame is sent to a viewer only after room_joined was
\* sent to it, and to a creator only after peer_joined for the viewer the
\* frame comes from was sent to it.
C19_HandshakeBeforeRelay ==
  [][\A c \in Conns : \A data \in HandshakeFrames :
       Handled(c, data) /\ data \notin ProtocolFrames
         => \A i \in 1..Len(out') :
              out'[i].to = hist.watch
                => IF role[c] = "creator"
                     THEN hist.joined
                     ELSE c \in hist.peers]_vars

(* ------------------------------- C20 ---------------------------------- *)

\* The frame text is a reply: room_created, room_joined or error.
IsReply(text) ==
  \E ty \in {"room_created", "room_joined", "error"} :
    <<"type", Str(ty)>> \in FieldContent(text)

\* C20: every frame the handler that ran last sent went to a connection
\* whose channel is open, and every room_created, room_joined and error
\* reply went to the connection whose frame that handler handled.
C20_SendsOnlyToOpen ==
  \A i \in 1..Len(out) :
    /\ readyState[out[i].to] = OPEN
    /\ IsReply(out[i].data) => (last.kind = "message" /\ out[i].to = last.conn)

\* A join succeeded into a room whose creator's channel is closed: the
\* joiner was sent room_joined and nothing went to the creator.
C20_Witness ==
  /\ last.kind = "message"
  /\ out = <<Send(last.conn, RoomJoinedText)>>
  /\ Has(currentRoom[last.conn])
  /\ rooms[currentRoom[last.conn]].viewer = last.conn
  /\ readyState[rooms[currentRoom[last.conn]].creator] = CLOSED

====
